---------------------------- MODULE Spec2Model ----------------------------
(***************************************************************************)
(* Model of divvy_story_dashboard.py: a Streamlit script that is re-run    *)
(* from the top on every user interaction.  One run is: File Upload,       *)
(* Data Preprocessing, Sidebar Filters, Apply Filters, Summary Section,    *)
(* Plot by Hour, Day of Week Usage, Map Visualization.                     *)
(*                                                                         *)
(* Data representation                                                     *)
(*   - a CSV timestamp cell is a record of its text fields (kind, y, mo,   *)
(*     d, h, mi, s); pd.to_datetime turns it into a Timestamp (seconds     *)
(*     since 1970-01-01) or NaT;                                           *)
(*   - a missing string cell (NaN) is the empty CSV cell "";               *)
(*   - an optional number (a coordinate, a mean, a reindexed count) is     *)
(*     <<v>> when present and <<>> when it is NaN / None.                  *)
(***************************************************************************)
EXTENDS Integers, Sequences, FiniteSets, TLC

(***************************************************************************)
(* Bounds of the model.                                                    *)
(***************************************************************************)
\* longest uploaded table enumerated row by row
MaxRows == 2
\* how far (in rows) the long tables go past the map's row limit
MaxOver == 2

(***************************************************************************)
(* Missing values.                                                         *)
(***************************************************************************)
NaN == <<>>
None == <<>>
NaNStr == ""
Some(v) == <<v>>

(***************************************************************************)
(* calendar.day_name, calendar.month_name                                  *)
(***************************************************************************)
day_name == <<"Monday", "Tuesday", "Wednesday", "Thursday", "Friday",
              "Saturday", "Sunday">>

\* calendar.month_name: index 0 of the Python list is '', so the TLA+
\* sequence (1-based) holds '' at position 1 and January at position 2.
month_name == <<"", "January", "February", "March", "April", "May", "June",
                "July", "August", "September", "October", "November",
                "December">>

\* Python list slicing lst[1:]
Tail1(lst) == SubSeq(lst, 2, Len(lst))

\* Python list.index(x): 0-based position of the first occurrence
ListIndex(lst, x) ==
    (CHOOSE i \in 1..Len(lst) :
        lst[i] = x /\ \A j \in 1..(i - 1) : lst[j] # x) - 1

days == <<"All">> \o day_name
months == <<"All">> \o Tail1(month_name)

Range(s) == {s[i] : i \in 1..Len(s)}

(***************************************************************************)
(* Timestamps: pd.to_datetime(..., errors='coerce') and the .dt accessors  *)
(***************************************************************************)
NaT == [nat |-> TRUE, value |-> 0]

IsLeap(y) == (y % 4 = 0 /\ y % 100 # 0) \/ y % 400 = 0

DaysInMonth(y, m) ==
    IF m = 2 THEN (IF IsLeap(y) THEN 29 ELSE 28)
    ELSE IF m \in {4, 6, 9, 11} THEN 30 ELSE 31

\* days from 1970-01-01 to the civil date y-m-d (proleptic Gregorian)
DaysFromCivil(y, m, d) ==
    LET yy  == IF m <= 2 THEN y - 1 ELSE y
        era == yy \div 400
        yoe == yy - era * 400
        mp  == IF m > 2 THEN m - 3 ELSE m + 9
        doy == (153 * mp + 2) \div 5 + d - 1
        doe == yoe * 365 + yoe \div 4 - yoe \div 100 + doy
    IN  era * 146097 + doe - 719468

\* the civil date of a day number, as [y, m, d]
CivilFromDays(z0) ==
    LET z   == z0 + 719468
        era == z \div 146097
        doe == z - era * 146097
        yoe == (doe - doe \div 1460 + doe \div 36524 - doe \div 146096) \div 365
        doy == doe - (365 * yoe + yoe \div 4 - yoe \div 100)
        mp  == (5 * doy + 2) \div 153
        d   == doy - (153 * mp + 2) \div 5 + 1
        m   == IF mp < 10 THEN mp + 3 ELSE mp - 9
        y   == yoe + era * 400 + (IF m <= 2 THEN 1 ELSE 0)
    IN  [y |-> y, m |-> m, d |-> d]

\* a cell reads as "YYYY-MM-DD hh:mm:ss" with every field in range
Parseable(c) ==
    /\ c.kind = "datetime"
    /\ c.y \in 1970..2037
    /\ c.mo \in 1..12
    /\ c.d >= 1 /\ c.d <= DaysInMonth(c.y, c.mo)
    /\ c.h \in 0..23
    /\ c.mi \in 0..59
    /\ c.s \in 0..59

\* pd.to_datetime(cell, errors='coerce')
ToDatetime(c) ==
    IF Parseable(c)
    THEN [nat |-> FALSE,
          value |-> DaysFromCivil(c.y, c.mo, c.d) * 86400
                    + c.h * 3600 + c.mi * 60 + c.s]
    ELSE NaT

DtHour(t) == (t.value % 86400) \div 3600
\* 1970-01-01 was a Thursday (index 3 of day_name, 0-based)
DtDayName(t) == day_name[((t.value \div 86400 + 3) % 7) + 1]
DtMonth(t) == CivilFromDays(t.value \div 86400).m
DtYear(t) == CivilFromDays(t.value \div 86400).y


(***************************************************************************)
(* The CSV files a user can upload.                                        *)
(***************************************************************************)
RequiredColumns == {"started_at", "ended_at", "member_casual"}
GeoColumns == {"start_lat", "start_lng"}

Txt(y, mo, d, h, mi, s) ==
    [kind |-> "datetime", y |-> y, mo |-> mo, d |-> d, h |-> h, mi |-> mi, s |-> s]
NotADate == [kind |-> "text", y |-> 0, mo |-> 0, d |-> 0, h |-> 0, mi |-> 0, s |-> 0]

CsvRow(rider, st, en, lat, lng) ==
    [member_casual |-> rider, started_at |-> st, ended_at |-> en,
     start_lat |-> lat, start_lng |-> lng]

\* member, Monday 1 January 2024, 08:00 - 08:30
RowA == CsvRow("member", Txt(2024, 1, 1, 8, 0, 0), Txt(2024, 1, 1, 8, 30, 0),
               Some(1), Some(1))
\* casual, Saturday 8 June 2024, 14:00 - 14:45, longitude missing
RowB == CsvRow("casual", Txt(2024, 6, 8, 14, 0, 0), Txt(2024, 6, 8, 14, 45, 0),
               Some(2), NaN)
\* member, started_at = "not-a-date"
RowC == CsvRow("member", NotADate, Txt(2024, 1, 1, 9, 0, 0), Some(3), Some(3))
\* casual, valid start, ended_at = "2024-02-30 10:00:00"
RowD == CsvRow("casual", Txt(2024, 6, 8, 14, 10, 0), Txt(2024, 2, 30, 10, 0, 0),
               Some(4), Some(4))
\* rider type missing, Monday 10 June 2024 23:50 - Tuesday 00:10, latitude missing
RowE == CsvRow(NaNStr, Txt(2024, 6, 10, 23, 50, 0), Txt(2024, 6, 11, 0, 10, 0),
               NaN, Some(5))
\* member, Saturday 8 June 2024, 00:05 - 00:20
RowF == CsvRow("member", Txt(2024, 6, 8, 0, 5, 0), Txt(2024, 6, 8, 0, 20, 0),
               Some(6), Some(6))

SampleRows == {RowA, RowB, RowC, RowD, RowE, RowF}

\* every table of at most n rows over a set of rows
TablesUpTo(rows, n) == UNION {[1..k -> rows] : k \in 0..n}

\* a row as it is in a file with the given columns
Project(row, cols) == [c \in cols |-> row[c]]

CsvFile(cols, table) ==
    [columns |-> cols, rows |-> [i \in 1..Len(table) |-> Project(table[i], cols)]]

\* the file has both coordinate columns, lacks start_lng, or lacks both
Schemas == {RequiredColumns \cup GeoColumns,
            RequiredColumns \cup {"start_lat"},
            RequiredColumns}

SmallFiles ==
    {CsvFile(cols, t) : cols \in Schemas, t \in TablesUpTo(SampleRows, MaxRows)}

(***************************************************************************)
(* Program state.                                                          *)
(*   session : uploaded_file, widget_rider, widget_day, widget_month       *)
(*   one run : pc, executed and the script's variables and outputs         *)
(***************************************************************************)
VARIABLES
    uploaded_file,      \* None or Some(file): st.file_uploader's value
    widget_rider,       \* selectbox "Select Rider Type": [options, value]
    widget_day,         \* selectbox "Select Day": the chosen option
    widget_month,       \* selectbox "Select Month": the chosen option
    pc,                 \* the section the run executes next, or how it ended
    executed,           \* the sections executed so far in this run
    df_columns,         \* df.columns
    df,                 \* the rows of df
    rider_types,
    selected_rider,     \* None or Some(rider type)
    selected_day,
    selected_month,
    df_filtered,
    total_rides,
    avg_ride_duration,  \* NaN or Some(<<numerator, denominator>>) minutes
    metrics,            \* what col1.metric / col2.metric display
    hist,               \* the px.histogram figure's data
    counts,             \* value_counts().reindex(calendar.day_name)
    map_df,             \* the points handed to st.map
    warnings,           \* the st.warning messages on the page
    exception           \* the uncaught exception that ended the run, if any

session_vars == <<uploaded_file, widget_rider, widget_day, widget_month>>
script_vars == <<df_columns, df, rider_types, selected_rider, selected_day,
                 selected_month, df_filtered, total_rides, avg_ride_duration,
                 metrics, hist, counts, map_df, warnings, exception>>
vars == <<session_vars, pc, executed, script_vars>>

Sections == <<"File Upload", "Data Preprocessing", "Sidebar Filters",
              "Apply Filters", "Summary Section", "Plot by Hour",
              "Day of Week Usage", "Map Visualization">>

NoMetrics == [total |-> NaN, avg |-> NaN]
NoHist == [drawn |-> FALSE, x |-> <<>>, nbins |-> 0, rider |-> ""]
DefaultRiderWidget == [options |-> <<>>, value |-> None]

\* a fresh run of the script: no variable is bound, nothing is on the page
FreshRun ==
    /\ pc' = "File Upload"
    /\ executed' = {}
    /\ df_columns' = {}
    /\ df' = <<>>
    /\ rider_types' = <<>>
    /\ selected_rider' = None
    /\ selected_day' = "All"
    /\ selected_month' = "All"
    /\ df_filtered' = <<>>
    /\ total_rides' = 0
    /\ avg_ride_duration' = NaN
    /\ metrics' = NoMetrics
    /\ hist' = NoHist
    /\ counts' = <<>>
    /\ map_df' = <<>>
    /\ warnings' = {}
    /\ exception' = "none"

Init ==
    /\ uploaded_file = None
    /\ widget_rider = DefaultRiderWidget
    /\ widget_day = "All"
    /\ widget_month = "All"
    /\ pc = "File Upload"
    /\ executed = {}
    /\ df_columns = {}
    /\ df = <<>>
    /\ rider_types = <<>>
    /\ selected_rider = None
    /\ selected_day = "All"
    /\ selected_month = "All"
    /\ df_filtered = <<>>
    /\ total_rides = 0
    /\ avg_ride_duration = NaN
    /\ metrics = NoMetrics
    /\ hist = NoHist
    /\ counts = <<>>
    /\ map_df = <<>>
    /\ warnings = {}
    /\ exception = "none"

\* the run is over: the page waits for the next interaction
RunEnded == pc \in {"done", "stopped", "error"}

(***************************************************************************)
(* The dataframe operations the script uses.                               *)
(***************************************************************************)
\* df[col] as a list
Column(rows, col) == [i \in 1..Len(rows) |-> rows[i][col]]

\* Boolean indexing df[mask] keeps the rows whose mask is True, in order:
\* SelectSeq.

\* df[col] = pd.to_datetime(df[col], errors='coerce')
CoerceColumn(rows, col) ==
    [i \in 1..Len(rows) |-> [rows[i] EXCEPT ![col] = ToDatetime(@)]]

\* a variant of DropNaT that looks at started_at alone
DropNaT_StartOnly(rows, subset) ==
    SelectSeq(rows, LAMBDA r : ~r.started_at.nat)

\* df.dropna(subset=[...]) on timestamp columns: a row with NaT in one of
\* them is dropped
DropNaT(rows, subset) ==
    SelectSeq(rows, LAMBDA r : \A c \in subset : ~r[c].nat)

\* the four derived columns
AddFeatures(rows) ==
    [i \in 1..Len(rows) |->
        rows[i] @@ [hour        |-> DtHour(rows[i].started_at),
                    day_of_week |-> DtDayName(rows[i].started_at),
                    month       |-> DtMonth(rows[i].started_at),
                    year        |-> DtYear(rows[i].started_at)]]

\* lines 49-56 as one function of the rows read from the file
Preprocess(rows) ==
    AddFeatures(
        DropNaT(CoerceColumn(CoerceColumn(rows, "started_at"), "ended_at"),
                {"started_at", "ended_at"}))

\* Series.dropna() on a string column
DropNaStr(xs) == SelectSeq(xs, LAMBDA x : x # NaNStr)

\* the position of the first occurrence of v in xs
FirstIndex(xs, v) ==
    CHOOSE i \in 1..Len(xs) : xs[i] = v /\ \A j \in 1..(i - 1) : xs[j] # v

\* Series.unique(): the distinct values in order of first appearance
Unique(xs) ==
    LET vals == Range(xs)
        first == [v \in vals |-> FirstIndex(xs, v)]
        before(v) == Cardinality({w \in vals : first[w] < first[v]})
    IN  [k \in 1..Cardinality(vals) |-> CHOOSE v \in vals : before(v) = k - 1]

\* df['member_casual'].dropna().unique().tolist()
RiderTypes(rows) == Unique(DropNaStr(Column(rows, "member_casual")))

\* a variant of Selectbox that keeps the user's choice whatever the options
Selectbox_Stale(options, widget) ==
    IF widget.value # None THEN widget.value
    ELSE IF options = <<>> THEN None
    ELSE Some(options[1])

\* the value st.selectbox returns: the user's choice while the options are
\* the ones it was made from, else the first option, else None
Selectbox(options, widget) ==
    IF widget.options = options /\ widget.value # None THEN widget.value
    ELSE IF options = <<>> THEN None
    ELSE Some(options[1])

\* df['member_casual'] == selected_rider, elementwise: a comparison with NaN
\* or with None is False
RiderMask(r, rider) ==
    /\ r.member_casual # NaNStr
    /\ rider # None
    /\ r.member_casual = rider[1]

FilterRider(rows, rider) == SelectSeq(rows, LAMBDA r : RiderMask(r, rider))

FilterDay(rows, day) ==
    IF day # "All" THEN SelectSeq(rows, LAMBDA r : r.day_of_week = day)
    ELSE rows

\* a variant of MonthNumber that looks the name up in month_name[1:]
MonthNumber_ZeroBased(month) == ListIndex(Tail1(month_name), month)

\* month_number = list(calendar.month_name).index(selected_month)
MonthNumber(month) == ListIndex(month_name, month)

FilterMonth(rows, month) ==
    IF month # "All"
    THEN SelectSeq(rows, LAMBDA r : r.month = MonthNumber(month))
    ELSE rows

\* lines 70-75
ApplyFilters(rows, rider, day, month) ==
    FilterMonth(FilterDay(FilterRider(rows, rider), day), month)

\* the sum of xs[lo..hi]
RECURSIVE SumRange(_, _, _)
SumRange(xs, lo, hi) ==
    IF lo > hi THEN 0
    ELSE IF lo = hi THEN xs[lo]
    ELSE LET mid == (lo + hi) \div 2
         IN  SumRange(xs, lo, mid) + SumRange(xs, mid + 1, hi)

SumSeq(xs) == SumRange(xs, 1, Len(xs))

\* (df['ended_at'] - df['started_at']).dt.total_seconds()
DurationSeconds(rows) ==
    [i \in 1..Len(rows) |-> rows[i].ended_at.value - rows[i].started_at.value]

\* Series.mean() / 60 as the fraction <<numerator, denominator>>; the mean of
\* an empty series is NaN, and NaN / 60 is NaN
MeanMinutes(secs) ==
    IF Len(secs) = 0 THEN NaN ELSE Some(<<SumSeq(secs), 60 * Len(secs)>>)

\* f"{x:.2f} mins": the text shown, as hundredths of a minute or "nan mins"
FormatMins(x) ==
    IF x = NaN THEN [nan |-> TRUE, hundredths |-> 0]
    ELSE [nan |-> FALSE,
          hundredths |-> (2 * 100 * x[1][1] + x[1][2]) \div (2 * x[1][2])]

\* str.title() of the rider types of the data
Title(s) ==
    CASE s = "member" -> "Member"
      [] s = "casual" -> "Casual"
      [] OTHER -> s

Count(xs, v) == Cardinality({i \in 1..Len(xs) : xs[i] = v})

\* Series.value_counts(): one entry per value that occurs
ValueCounts(xs) == [v \in Range(xs) |-> Count(xs, v)]

\* Series.reindex(index): the entries in the order of index; a label the
\* series does not hold gets NaN
Reindex(series, index) ==
    [i \in 1..Len(index) |->
        IF index[i] \in DOMAIN series THEN Some(series[index[i]]) ELSE NaN]

\* the bars of px.histogram: the bins are laid over the values handed to it,
\* one count per group of values
HistogramBars(x) == ValueCounts(x)

\* df[['start_lat', 'start_lng']]
Coordinates(rows) ==
    [i \in 1..Len(rows) |->
        [start_lat |-> rows[i].start_lat, start_lng |-> rows[i].start_lng]]

\* .dropna() on the two coordinate columns
DropNaCoord(pts) ==
    SelectSeq(pts, LAMBDA p : p.start_lat # NaN /\ p.start_lng # NaN)

\* .rename(columns={'start_lat': 'latitude', 'start_lng': 'longitude'})
Rename(pts) ==
    [i \in 1..Len(pts) |->
        [latitude |-> pts[i].start_lat, longitude |-> pts[i].start_lng]]

\* the row limit of the map
MapLimit == 1000

\* DataFrame.head(n)
HeadRows(rows, n) == SubSeq(rows, 1, IF Len(rows) < n THEN Len(rows) ELSE n)

\* a variant of MapPoints that cuts to the row limit before dropping the rows
\* with a missing coordinate
MapPoints_HeadFirst(rows) ==
    Rename(DropNaCoord(Coordinates(HeadRows(rows, MapLimit))))

\* lines 110-112
MapPoints(rows) == HeadRows(Rename(DropNaCoord(Coordinates(rows))), MapLimit)

(***************************************************************************)
(* Long files: tables around the map's row limit.  Row i is a member ride  *)
(* with coordinates (i, i), except that row 1 and row MapLimit may lack a  *)
(* coordinate or be a casual ride.                                         *)
(***************************************************************************)
LongRowKinds == {"plain", "no_lat", "no_lng", "casual"}

LongRow(i, kind) ==
    CsvRow(IF kind = "casual" THEN "casual" ELSE "member",
           Txt(2024, 1, 1, 8, 0, 0), Txt(2024, 1, 1, 8, 30, 0),
           IF kind = "no_lat" THEN NaN ELSE Some(i),
           IF kind = "no_lng" THEN NaN ELSE Some(i))

LongTable(n, k1, k2) ==
    [i \in 1..n |->
        LongRow(i, IF i = 1 THEN k1 ELSE IF i = MapLimit THEN k2 ELSE "plain")]

LongFiles ==
    {CsvFile(RequiredColumns \cup GeoColumns, LongTable(n, k1, k2)) :
        n \in (MapLimit - 1)..(MapLimit + MaxOver),
        k1 \in LongRowKinds, k2 \in LongRowKinds}

(***************************************************************************)
(* One run of the script, section by section.                              *)
(***************************************************************************)
NoUploadWarning == "Please upload the CSV file to proceed."
NoMapWarning == "Map could not be rendered. Required columns missing."

Enter(section) ==
    /\ pc = section
    /\ executed' = executed \cup {section}

\* a variant of FileUpload that warns and goes on without a file
FileUpload_NoStop ==
    /\ Enter("File Upload")
    /\ IF uploaded_file = None
       THEN /\ warnings' = warnings \cup {NoUploadWarning}
            /\ UNCHANGED <<df, df_columns>>
       ELSE /\ df' = uploaded_file[1].rows
            /\ df_columns' = uploaded_file[1].columns
            /\ UNCHANGED warnings
    /\ pc' = "Data Preprocessing"
    /\ UNCHANGED <<session_vars, rider_types, selected_rider, selected_day,
                   selected_month, df_filtered, total_rides, avg_ride_duration,
                   metrics, hist, counts, map_df, exception>>

\* ---- File Upload ----
FileUpload ==
    /\ Enter("File Upload")
    /\ IF uploaded_file = None
       THEN \* st.warning(...); st.stop().  The selectboxes are not rendered
            \* in this run, so the session forgets their values.
            /\ warnings' = warnings \cup {NoUploadWarning}
            /\ pc' = "stopped"
            /\ widget_rider' = DefaultRiderWidget
            /\ widget_day' = "All"
            /\ widget_month' = "All"
            /\ UNCHANGED <<df, df_columns>>
       ELSE \* df = pd.read_csv(uploaded_file)
            /\ df' = uploaded_file[1].rows
            /\ df_columns' = uploaded_file[1].columns
            /\ pc' = "Data Preprocessing"
            /\ UNCHANGED <<warnings, widget_rider, widget_day, widget_month>>
    /\ UNCHANGED <<uploaded_file, rider_types, selected_rider, selected_day,
                   selected_month, df_filtered, total_rides, avg_ride_duration,
                   metrics, hist, counts, map_df, exception>>

\* ---- Data Preprocessing ----
DataPreprocessing ==
    /\ Enter("Data Preprocessing")
    /\ df' = Preprocess(df)
    /\ df_columns' = df_columns \cup {"hour", "day_of_week", "month", "year"}
    /\ pc' = "Sidebar Filters"
    /\ UNCHANGED <<session_vars, rider_types, selected_rider, selected_day,
                   selected_month, df_filtered, total_rides, avg_ride_duration,
                   metrics, hist, counts, map_df, warnings, exception>>

\* ---- Sidebar Filters ----
SidebarFilters ==
    /\ Enter("Sidebar Filters")
    /\ rider_types' = RiderTypes(df)
    /\ selected_rider' = Selectbox(rider_types', widget_rider)
    /\ widget_rider' = [options |-> rider_types', value |-> selected_rider']
    /\ selected_day' = widget_day
    /\ selected_month' = widget_month
    /\ pc' = "Apply Filters"
    /\ UNCHANGED <<uploaded_file, widget_day, widget_month, df, df_columns,
                   df_filtered, total_rides, avg_ride_duration, metrics, hist,
                   counts, map_df, warnings, exception>>

\* ---- Apply Filters ----
ApplyFiltersSection ==
    /\ Enter("Apply Filters")
    /\ df_filtered' = ApplyFilters(df, selected_rider, selected_day, selected_month)
    /\ pc' = "Summary Section"
    /\ UNCHANGED <<session_vars, df, df_columns, rider_types, selected_rider,
                   selected_day, selected_month, total_rides, avg_ride_duration,
                   metrics, hist, counts, map_df, warnings, exception>>

\* ---- Summary Section ----
SummarySection ==
    /\ Enter("Summary Section")
    /\ total_rides' = Len(df_filtered)
    /\ avg_ride_duration' = MeanMinutes(DurationSeconds(df_filtered))
    /\ metrics' = [total |-> Some(total_rides'),
                   avg   |-> Some(FormatMins(avg_ride_duration'))]
    /\ pc' = "Plot by Hour"
    /\ UNCHANGED <<session_vars, df, df_columns, rider_types, selected_rider,
                   selected_day, selected_month, df_filtered, hist, counts,
                   map_df, warnings, exception>>

\* ---- Plot by Hour ----
\* the title calls selected_rider.title(): on None that is an AttributeError,
\* which nothing catches
PlotByHour ==
    /\ Enter("Plot by Hour")
    /\ IF selected_rider = None
       THEN /\ exception' = "AttributeError"
            /\ pc' = "error"
            /\ UNCHANGED hist
       ELSE /\ hist' = [drawn |-> TRUE,
                        x     |-> Column(df_filtered, "hour"),
                        nbins |-> 24,
                        rider |-> Title(selected_rider[1])]
            /\ pc' = "Day of Week Usage"
            /\ UNCHANGED exception
    /\ UNCHANGED <<session_vars, df, df_columns, rider_types, selected_rider,
                   selected_day, selected_month, df_filtered, total_rides,
                   avg_ride_duration, metrics, counts, map_df, warnings>>

\* ---- Day of Week Usage ----
DayOfWeekUsage ==
    /\ Enter("Day of Week Usage")
    /\ IF selected_rider = None
       THEN /\ exception' = "AttributeError"
            /\ pc' = "error"
            /\ UNCHANGED counts
       ELSE /\ counts' = Reindex(ValueCounts(Column(df_filtered, "day_of_week")),
                                 day_name)
            /\ pc' = "Map Visualization"
            /\ UNCHANGED exception
    /\ UNCHANGED <<session_vars, df, df_columns, rider_types, selected_rider,
                   selected_day, selected_month, df_filtered, total_rides,
                   avg_ride_duration, metrics, hist, map_df, warnings>>

\* ---- Map Visualization ---- (the storytelling text and the footer that
\* follow are static, and end the run)
MapVisualization ==
    /\ Enter("Map Visualization")
    /\ IF "start_lat" \in df_columns /\ "start_lng" \in df_columns
       THEN /\ map_df' = Some(MapPoints(df_filtered))
            /\ UNCHANGED warnings
       ELSE /\ warnings' = warnings \cup {NoMapWarning}
            /\ UNCHANGED map_df
    /\ pc' = "done"
    /\ UNCHANGED <<session_vars, df, df_columns, rider_types, selected_rider,
                   selected_day, selected_month, df_filtered, total_rides,
                   avg_ride_duration, metrics, hist, counts, exception>>

(***************************************************************************)
(* User interactions: each one starts a fresh run of the script.           *)
(***************************************************************************)
\* the options the modelled user picks in the day and month selectboxes
DayChoices == {"All", "Monday", "Saturday"}
MonthChoices == {"All", "January", "June"}

\* the user uploads a file (the first one, or one replacing the current one)
UploadFrom(files) ==
    /\ RunEnded
    /\ \E f \in files : uploaded_file' = Some(f)
    /\ UNCHANGED <<widget_rider, widget_day, widget_month>>
    /\ FreshRun

Upload == UploadFrom(SmallFiles)

UploadLong == UploadFrom(LongFiles)

\* the user removes the uploaded file
RemoveFile ==
    /\ RunEnded
    /\ uploaded_file # None
    /\ uploaded_file' = None
    /\ UNCHANGED <<widget_rider, widget_day, widget_month>>
    /\ FreshRun

\* the selectboxes are on the page once Sidebar Filters has executed
SidebarShown == RunEnded /\ "Sidebar Filters" \in executed

SelectRider ==
    /\ SidebarShown
    /\ \E r \in Range(widget_rider.options) :
          /\ Some(r) # widget_rider.value
          /\ widget_rider' = [widget_rider EXCEPT !.value = Some(r)]
    /\ UNCHANGED <<uploaded_file, widget_day, widget_month>>
    /\ FreshRun

SelectDay ==
    /\ SidebarShown
    /\ \E d \in DayChoices \cap Range(days) : d # widget_day /\ widget_day' = d
    /\ UNCHANGED <<uploaded_file, widget_rider, widget_month>>
    /\ FreshRun

SelectMonth ==
    /\ SidebarShown
    /\ \E m \in MonthChoices \cap Range(months) : m # widget_month /\ widget_month' = m
    /\ UNCHANGED <<uploaded_file, widget_rider, widget_day>>
    /\ FreshRun

Next ==
    \/ FileUpload
    \/ DataPreprocessing
    \/ SidebarFilters
    \/ ApplyFiltersSection
    \/ SummarySection
    \/ PlotByHour
    \/ DayOfWeekUsage
    \/ MapVisualization
    \/ Upload
    \/ RemoveFile
    \/ SelectRider
    \/ SelectDay
    \/ SelectMonth

Spec == Init /\ [][Next]_vars

\* the same program fed long files: the runs in which the map's row limit
\* comes into play
NextGeo ==
    \/ FileUpload
    \/ DataPreprocessing
    \/ SidebarFilters
    \/ ApplyFiltersSection
    \/ SummarySection
    \/ PlotByHour
    \/ DayOfWeekUsage
    \/ MapVisualization
    \/ UploadLong
    \/ SelectRider

SpecGeo == Init /\ [][NextGeo]_vars

(***************************************************************************)
(* Properties.                                                             *)
(***************************************************************************)
Ran(section) == section \in executed

HasFile == uploaded_file # None

\* the rows read from the uploaded file
RawRows == uploaded_file[1].rows

Min(a, b) == IF a < b THEN a ELSE b

\* the calendar number of each month name
CalendarMonth ==
    [January |-> 1, February |-> 2, March |-> 3, April |-> 4, May |-> 5,
     June |-> 6, July |-> 7, August |-> 8, September |-> 9, October |-> 10,
     November |-> 11, December |-> 12]

\* a record matches the Filter Selection (rider, day, month)
Matches(r, rider, day, month) ==
    /\ r.member_casual = rider
    /\ day # "All" => r.day_of_week = day
    /\ month # "All" => r.month = CalendarMonth[month]

\* sub is a subsequence of full: its records are records of full, in the
\* order they have there
IsSubsequence(sub, full) ==
    \E f \in [1..Len(sub) -> 1..Len(full)] :
        /\ \A k \in 1..Len(sub) : sub[k] = full[f[k]]
        /\ \A k \in 1..(Len(sub) - 1) : f[k] < f[k + 1]

(***************************************************************************)
(* C1: once Apply Filters has run with a rider type selected, the Filtered *)
(* View holds exactly the records of the processed table that equal the    *)
(* selected rider type, the selected day (unless "All") and the calendar   *)
(* number of the selected month (unless "All"): every record of the view   *)
(* matches, the view is a subsequence of the table, it has as many records *)
(* as the table has matching ones, and it is empty iff none matches.  The  *)
(* month number computed for each of the twelve option names is its        *)
(* 1-indexed calendar number.                                              *)
(***************************************************************************)
C1_FilteredViewIsExactlyTheMatches ==
    /\ \A k \in 1..12 : MonthNumber(months[k + 1]) = k
    /\ (Ran("Apply Filters") /\ selected_rider # None) =>
          LET rider == selected_rider[1]
              hits  == {i \in 1..Len(df) :
                           Matches(df[i], rider, selected_day, selected_month)}
          IN  /\ \A k \in 1..Len(df_filtered) :
                    Matches(df_filtered[k], rider, selected_day, selected_month)
              /\ IsSubsequence(df_filtered, df)
              /\ Len(df_filtered) = Cardinality(hits)
              /\ (df_filtered = <<>>) <=> (hits = {})

\* a run filtered by rider, day and month that keeps one record of two
C1_Witness ==
    /\ Ran("Apply Filters")
    /\ selected_rider = Some("member")
    /\ selected_day = "Saturday"
    /\ selected_month = "June"
    /\ Len(df) = 2
    /\ Len(df_filtered) = 1

(***************************************************************************)
(* C2: while no file is uploaded the run goes no further than File Upload: *)
(* it ends "stopped" with the upload prompt and no exception, and no later *)
(* section has executed or produced anything.  Hence every run in which a  *)
(* later section executes has a file.                                      *)
(***************************************************************************)
C2_NoFileHaltsAtIngestion ==
    /\ ~HasFile =>
          /\ executed \subseteq {"File Upload"}
          /\ pc \in {"File Upload", "stopped"}
          /\ Ran("File Upload") => (pc = "stopped" /\ NoUploadWarning \in warnings)
          /\ exception = "none"
          /\ df = <<>> /\ df_filtered = <<>>
          /\ metrics = NoMetrics /\ ~hist.drawn /\ counts = <<>> /\ map_df = None
    /\ pc = "stopped" => ~HasFile
    /\ (executed \ {"File Upload"}) # {} => HasFile

\* the run has stopped at File Upload with the prompt on the page
C2_Witness ==
    /\ ~HasFile
    /\ pc = "stopped"
    /\ NoUploadWarning \in warnings

(***************************************************************************)
(* C3: after Data Preprocessing no record of df has a missing started_at   *)
(* or ended_at; the records kept are exactly the rows of the file whose    *)
(* two timestamps both parse, in file order, so the row count is that of   *)
(* the file minus the rows with at least one unparseable timestamp; and    *)
(* the section raises nothing.                                             *)
(***************************************************************************)
Unparseable(row) ==
    ToDatetime(row.started_at) = NaT \/ ToDatetime(row.ended_at) = NaT

C3_UnparseableRowsDropped ==
    Ran("Data Preprocessing") =>
        LET bad  == {i \in 1..Len(RawRows) : Unparseable(RawRows[i])}
            good == (1..Len(RawRows)) \ bad
            rank(i) == Cardinality({j \in good : j <= i})
        IN  /\ \A k \in 1..Len(df) : ~df[k].started_at.nat /\ ~df[k].ended_at.nat
            /\ Len(df) = Len(RawRows) - Cardinality(bad)
            /\ \A i \in good :
                  /\ df[rank(i)].started_at = ToDatetime(RawRows[i].started_at)
                  /\ df[rank(i)].ended_at = ToDatetime(RawRows[i].ended_at)
                  /\ df[rank(i)].member_casual = RawRows[i].member_casual
            /\ pc = "Sidebar Filters" => exception = "none"

\* a row with a valid start and an invalid end was dropped, and a row with
\* both timestamps valid was kept
C3_Witness ==
    /\ HasFile
    /\ Ran("Data Preprocessing")
    /\ \E i \in 1..Len(RawRows) :
          /\ ToDatetime(RawRows[i].started_at) # NaT
          /\ ToDatetime(RawRows[i].ended_at) = NaT
    /\ Len(RawRows) = 2
    /\ Len(df) = 1

(***************************************************************************)
(* C4 (as claimed): the hourly aggregate drawn by Plot by Hour has exactly *)
(* 24 entries, one per hour 0..23, with 0 for an hour without records, and *)
(* the counts sum to the number of records of the Filtered View.           *)
(***************************************************************************)
C4_HourlyHas24Entries ==
    hist.drawn =>
        LET bars == HistogramBars(hist.x)
        IN  /\ DOMAIN bars = 0..23
            /\ SumSeq([h \in 1..24 |->
                         IF (h - 1) \in DOMAIN bars THEN bars[h - 1] ELSE 0])
                 = Len(df_filtered)

(***************************************************************************)
(* C5 (as claimed): the weekday aggregate has 7 entries in the order       *)
(* Monday..Sunday, each the count of the records of that day (0 for a day  *)
(* without records, never a missing value), summing to the number of       *)
(* records of the Filtered View.                                           *)
(***************************************************************************)
C5_WeekdayCountsAreCounts ==
    Ran("Day of Week Usage") =>
        /\ Len(counts) = 7
        /\ \A i \in 1..7 :
              counts[i] = Some(Count(Column(df_filtered, "day_of_week"), day_name[i]))
        /\ SumSeq([i \in 1..7 |-> IF counts[i] = NaN THEN 0 ELSE counts[i][1]])
             = Len(df_filtered)

(***************************************************************************)
(* C6 (as claimed): total_rides is the number of records of the Filtered   *)
(* View and avg_duration_minutes the mean of ended_at - started_at in      *)
(* seconds over 60; on an empty view total_rides is 0 and the average is a *)
(* "no value" that is handled rather than displayed as an average.         *)
(***************************************************************************)
C6_SummaryHandlesNoValue ==
    Ran("Summary Section") =>
        /\ total_rides = Len(df_filtered)
        /\ df_filtered # <<>> =>
              /\ avg_ride_duration # NaN
              /\ avg_ride_duration[1][1] = SumSeq(DurationSeconds(df_filtered))
              /\ avg_ride_duration[1][2] = 60 * Len(df_filtered)
        /\ df_filtered = <<>> =>
              /\ total_rides = 0
              /\ avg_ride_duration = NaN
              /\ metrics.avg # Some(FormatMins(NaN))

(***************************************************************************)
(* C7: when both coordinate columns exist, the points handed to the map    *)
(* are the first min(1000, n) coordinate pairs, in table order, of the n   *)
(* records of the Filtered View with both coordinates present: the q-th    *)
(* such record is point q for every q up to the length, the length is      *)
(* min(1000, n), and no point has a missing coordinate.                    *)
(***************************************************************************)
BothCoordinates(r) == r.start_lat # NaN /\ r.start_lng # NaN

C7_MapIsFirstThousandWithCoordinates ==
    map_df # None =>
        LET points  == map_df[1]
            missing == {j \in 1..Len(df_filtered) : ~BothCoordinates(df_filtered[j])}
            n       == Len(df_filtered) - Cardinality(missing)
            rank(i) == i - Cardinality({j \in missing : j < i})
        IN  /\ GeoColumns \subseteq df_columns
            /\ Len(points) = Min(1000, n)
            /\ \A q \in 1..Len(points) :
                  points[q].latitude # NaN /\ points[q].longitude # NaN
            /\ \A i \in 1..Len(df_filtered) :
                  (i \notin missing /\ rank(i) <= Len(points)) =>
                      /\ points[rank(i)].latitude = df_filtered[i].start_lat
                      /\ points[rank(i)].longitude = df_filtered[i].start_lng

\* more than 1000 records with coordinates, one of the first 1000 records
\* without: the map holds 1000 points
C7_Witness ==
    /\ map_df # None
    /\ Len(map_df[1]) = 1000
    /\ \E j \in 1..1000 : ~BothCoordinates(df_filtered[j])
    /\ Cardinality({j \in 1..Len(df_filtered) : BothCoordinates(df_filtered[j])})
         > 1000

(***************************************************************************)
(* C8 (as claimed): for a file that lacks start_lat or start_lng the run   *)
(* completes: the map is not computed, the "not available" warning is on   *)
(* the page, and the summary, the hourly and the weekday aggregates are    *)
(* computed.                                                               *)
(***************************************************************************)
C8_MissingCoordinatesOnlyDegradeMap ==
    (HasFile /\ RunEnded /\ ~(GeoColumns \subseteq uploaded_file[1].columns)) =>
        /\ pc = "done"
        /\ map_df = None
        /\ NoMapWarning \in warnings
        /\ Ran("Summary Section") /\ metrics # NoMetrics
        /\ hist.drawn
        /\ Ran("Day of Week Usage")

(***************************************************************************)
(* C9 (as claimed): when the data has no non-null rider type, the run ends *)
(* without an error, with an empty Filtered View and with every section    *)
(* executed.                                                               *)
(***************************************************************************)
C9_NoRiderTypeIsNotAnError ==
    (RunEnded /\ Ran("Sidebar Filters") /\ rider_types = <<>>) =>
        /\ pc = "done"
        /\ exception = "none"
        /\ df_filtered = <<>>
        /\ executed = Range(Sections)

(***************************************************************************)
(* C10: at every point of every run, whatever interactions came before,    *)
(* everything the run has computed so far is determined by the file now    *)
(* uploaded and the options now selected: df is the preprocessed file and  *)
(* stays so through the filters, the rider options are those of this file  *)
(* and the selected rider is one of them (or None when there is none), the *)
(* selected day and month are the widgets' values, and the Filtered View   *)
(* and every aggregate are the ones computed from them.                    *)
(***************************************************************************)
C10_OutputsDependOnCurrentInputsOnly ==
    LET table == Preprocess(RawRows)
        view  == ApplyFilters(table, widget_rider.value, widget_day, widget_month)
    IN  /\ Ran("Data Preprocessing") => df = table
        /\ Ran("Sidebar Filters") =>
              /\ rider_types = RiderTypes(table)
              /\ widget_rider.options = rider_types
              /\ selected_rider = widget_rider.value
              /\ IF rider_types = <<>> THEN selected_rider = None
                 ELSE selected_rider # None /\ selected_rider[1] \in Range(rider_types)
              /\ selected_day = widget_day
              /\ selected_month = widget_month
        /\ Ran("Apply Filters") => df_filtered = view
        /\ Ran("Summary Section") =>
              /\ total_rides = Len(view)
              /\ avg_ride_duration = MeanMinutes(DurationSeconds(view))
        /\ hist.drawn => hist.x = Column(view, "hour")
        /\ (Ran("Day of Week Usage") /\ pc # "error") =>
              counts = Reindex(ValueCounts(Column(view, "day_of_week")), day_name)
        /\ map_df # None => map_df[1] = MapPoints(view)

\* a completed run with a rider type, a day and a month that are not the
\* defaults: several interactions came before it
C10_Witness ==
    /\ pc = "done"
    /\ rider_types = <<"member", "casual">>
    /\ selected_rider = Some("casual")
    /\ widget_day = "Saturday"
    /\ widget_month = "June"
    /\ Len(df_filtered) = 1

=============================================================================
